---------------------------- MODULE Spec2Model ----------------------------
(***************************************************************************)
(* Model of the youtube-backend controllers:                               *)
(*   src/src/models/subcription.model.js  (subscription schema and the     *)
(*                                         user controller)                *)
(*   src/unnamed/part_000                 (the dashboard controller)       *)
(*   src/src/utils/asyncHandler.js        (the handler wrapper)            *)
(*                                                                         *)
(* Every controller is modelled as the request-handler function that the   *)
(* source passes to asyncHandler: one action per handler, the handler run  *)
(* from its first line to its response (or its thrown ApiError).  What     *)
(* asyncHandler itself returns is modelled separately (SpecHandler).       *)
(*                                                                         *)
(* Documents are functions from field names to values, collections are     *)
(* sequences in store order, user names are sequences of characters.       *)
(***************************************************************************)
EXTENDS Integers, Sequences, FiniteSets, TLC

VARIABLES
    users,          \* the users collection: user id -> document
    subscriptions,  \* the subscriptions collection, in store order
    videos,         \* the videos collection, in store order
    likes,          \* the likes collection, in store order
    strictQuery,    \* mongoose's strictQuery setting of the build
    objectIdCallable, \* whether the build's ObjectId may be called without new
    minted,         \* refresh tokens signed so far
    wrapped,        \* what asyncHandler returned for the registered handler
    wrappedOf,      \* the requestHandler that was passed to asyncHandler
    served,         \* the requests dispatched to the registered handler
    inbox,          \* the request received and not yet handled (read-only queries)
    resp            \* the response to the last request

vars == <<users, subscriptions, videos, likes, strictQuery, objectIdCallable,
          minted, wrapped, wrappedOf, served, inbox, resp>>

-----------------------------------------------------------------------------
(* Bounds of the model *)

NumUsers == 3
MaxSubs == 2
MaxVideos == 3
MaxHistory == 2
MaxLikes == 2
MaxViews == 2
MaxPage == 2
MaxLimit == 2
MaxTokens == 3
MaxServed == 2

Users == 1..NumUsers

\* req.user?._id of a request without an authenticated user (serialised as null)
NoViewer == 0

-----------------------------------------------------------------------------
(* Strings *)

Lower == <<"a", "b", "c", "d", "e", "f">>
Upper == <<"A", "B", "C", "D", "E", "F">>
Space == " "

\* String.prototype.toLowerCase, on one character and on a string
LowerChar(c) ==
    IF \E i \in 1..Len(Upper) : Upper[i] = c
    THEN Lower[CHOOSE i \in 1..Len(Upper) : Upper[i] = c]
    ELSE c

toLowerCase(s) == [i \in 1..Len(s) |-> LowerChar(s[i])]

RECURSIVE TrimStart(_)
TrimStart(s) ==
    IF s # <<>> /\ Head(s) = Space THEN TrimStart(Tail(s)) ELSE s

RECURSIVE TrimEnd(_)
TrimEnd(s) ==
    IF s # <<>> /\ s[Len(s)] = Space THEN TrimEnd(SubSeq(s, 1, Len(s) - 1)) ELSE s

\* String.prototype.trim
trim(s) == TrimEnd(TrimStart(s))

\* req.params.username: absent, or a string
Absent == [present |-> FALSE, value |-> <<>>]
Str(s) == [present |-> TRUE, value |-> s]

-----------------------------------------------------------------------------
(* Documents *)

EmptyDoc == <<>>

\* the document d restricted to the fields in fs that it has
Restrict(d, fs) == [f \in (DOMAIN d) \cap fs |-> d[f]]

\* the document d with field f set to v
WithField(d, f, v) == [g \in (DOMAIN d) \cup {f} |-> IF g = f THEN v ELSE d[g]]

\* the document d without field f
WithoutField(d, f) == [g \in (DOMAIN d) \ {f} |-> d[g]]

\* the username stored for user u: registerUser stores username.toLowerCase()
Username(u) == <<Lower[u]>>

\* a refresh token: jwt.sign of the payload {_id} (n tells two signatures apart)
Token(u, n) == [kind |-> "jwt", _id |-> u, n |-> n]
AccessToken(u, n) == [kind |-> "access", _id |-> u, n |-> n]

\* the JavaScript value undefined where a token is expected
Undefined == [kind |-> "undefined", _id |-> NoViewer, n |-> NoViewer]

\* a string that is no signed token
Malformed == [kind |-> "malformed", _id |-> NoViewer, n |-> NoViewer]

\* what asyncHandler is yet to be called for
Unregistered == [kind |-> "unregistered"]
NoHandler == [outcome |-> "none", error |-> "none"]

\* a user document as registerUser creates it
UserDoc(u) ==
    [_id |-> u,
     username |-> Username(u),
     email |-> <<"email", u>>,
     fullName |-> <<"fullName", u>>,
     avatar |-> <<"avatar", u>>,
     coverImage |-> <<"coverImage", u>>,
     password |-> <<"password", u>>,
     watchHistory |-> <<>>]

\* a subscription document (subscriptionSchema)
SubscriptionDoc(id, s, c) == [_id |-> id, subscriber |-> s, channel |-> c]

\* all sequences over S of length at most n
RECURSIVE SeqsUpTo(_, _)
SeqsUpTo(S, n) ==
    IF n = 0 THEN {<<>>}
    ELSE LET shorter == SeqsUpTo(S, n - 1)
         IN  shorter \cup {Append(q, x) : q \in {r \in shorter : Len(r) = n - 1}, x \in S}

-----------------------------------------------------------------------------
(* The response envelope: res.status(s).json(new ApiResponse(...)), or the  *)
(* ApiError the handler threw.                                              *)

\* new ApiResponse(statusCode, data, message), as the user controller calls it
ApiResponse(statusCode, data, message) ==
    [statusCode |-> statusCode, data |-> data, message |-> message]

\* new ApiError(statusCode, message): its data is null
ApiError(statusCode, message) ==
    [statusCode |-> statusCode, data |-> EmptyDoc, message |-> message]

NoResponse ==
    [op |-> "none", status |-> 0, req |-> EmptyDoc, body |-> EmptyDoc, queries |-> 0]

\* what the client gets: the HTTP status and the JSON body, for the request req,
\* after the handler issued the given number of store queries
Response(op, status, req, body, queries) ==
    [op |-> op, status |-> status, req |-> req, body |-> body, queries |-> queries]

-----------------------------------------------------------------------------
(* getUserChannelProfile *)

\* mutant: the check without the trim
UsernameMissingNoTrim(username) ==
    \/ ~username.present
    \/ username.value = <<>>

\* if(!username?.trim())
UsernameMissing(username) ==
    \/ ~username.present
    \/ trim(username.value) = <<>>

\* $match: { username: username?.toLowerCase() }
MatchUsername(username) ==
    LET ids == {u \in Users : users[u].username = toLowerCase(username.value)}
    IN  [i \in 1..Cardinality(ids) |->
            users[CHOOSE u \in ids : Cardinality({v \in ids : v < u}) = i - 1]]

\* mutant: the join on the wrong foreign field
LookupSubscribersBySubscriber(doc) ==
    SelectSeq(subscriptions, LAMBDA s : s.subscriber = doc._id)

\* $lookup from subscriptions, localField _id, foreignField channel
LookupSubscribers(doc) ==
    SelectSeq(subscriptions, LAMBDA s : s.channel = doc._id)

\* $lookup from subscriptions, localField _id, foreignField subscriber
LookupSubscribedTo(doc) ==
    SelectSeq(subscriptions, LAMBDA s : s.subscriber = doc._id)

\* mutant: the membership test on the channel side of the edges
ViewerInChannels(viewer, subscribers) ==
    \E i \in 1..Len(subscribers) : subscribers[i].channel = viewer

\* $in: [req.user?._id, "$subscribers.subscriber"]
ViewerInSubscribers(viewer, subscribers) ==
    \E i \in 1..Len(subscribers) : subscribers[i].subscriber = viewer

\* the $addFields stage
AddFields(viewer, doc) ==
    LET subscribers == LookupSubscribers(doc)
        subscribedTo == LookupSubscribedTo(doc)
        d1 == WithField(doc, "subscribers", subscribers)
        d2 == WithField(d1, "subscribedTo", subscribedTo)
        d3 == WithField(d2, "subscribersCount", Len(subscribers))
        d4 == WithField(d3, "channelsSubscribedToCount", Len(subscribedTo))
    IN  WithField(d4, "isSubscribed",
                  IF ViewerInSubscribers(viewer, subscribers) THEN TRUE ELSE FALSE)

ProfileFields ==
    {"fullName", "username", "avatar", "coverImage", "subscribersCount",
     "channelsSubscribedToCount", "isSubscribed", "email"}

\* mutant: an exclusion projection of the password alone
ProjectWithoutPassword(doc) == WithoutField(doc, "password")

\* the $project stage: an inclusion projection keeps _id
Project(doc) == Restrict(doc, ProfileFields \cup {"_id"})

\* User.aggregate([...]) of getUserChannelProfile
ChannelPipeline(viewer, username) ==
    LET matched == MatchUsername(username)
    IN  [i \in 1..Len(matched) |-> Project(AddFields(viewer, matched[i]))]

ProfileResult(viewer, username) ==
    LET req == [viewer |-> viewer, username |-> username]
    IN  IF UsernameMissing(username)
        THEN Response("getUserChannelProfile", 400, req,
                      ApiError(400, "Username is required to get Profile"), 0)
        ELSE LET channel == ChannelPipeline(viewer, username)
             IN  IF Len(channel) = 0
                 THEN Response("getUserChannelProfile", 404, req,
                               ApiError(404, "Channel not found"), 1)
                 ELSE Response("getUserChannelProfile", 200, req,
                               ApiResponse(200, channel[1],
                                   "User Channel Profile Fetched Successfully"), 1)

\* everything but the inbox and the response
store == <<users, subscriptions, videos, likes, strictQuery, objectIdCallable,
           minted, wrapped, wrappedOf, served>>

getUserChannelProfile ==
    /\ inbox # <<>>
    /\ Head(inbox).op = "getUserChannelProfile"
    /\ resp' = ProfileResult(Head(inbox).viewer, Head(inbox).username)
    /\ inbox' = Tail(inbox)
    /\ UNCHANGED store

\* the user names a request may carry
UsernameInputs ==
    {Absent, Str(<<>>), Str(<<Space>>), Str(<<Space, Space>>), Str(<<"z">>)}
    \cup {Str(<<Lower[u]>>) : u \in Users}
    \cup {Str(<<Upper[u]>>) : u \in Users}
    \cup {Str(<<Space, Lower[u]>>) : u \in Users}

\* the subscription collections of at most MaxSubs edges between users
SubscriptionStores ==
    {[i \in 1..Len(q) |-> SubscriptionDoc(i, q[i][1], q[i][2])] :
        q \in SeqsUpTo(Users \X Users, MaxSubs)}

\* a stored refresh token, as generateAccessAndRefreshTokens leaves it
LoggedIn(doc) == WithField(doc, "refreshToken", Token(doc._id, 0))

InitProfile ==
    /\ users = [u \in Users |-> LoggedIn(UserDoc(u))]
    /\ subscriptions \in SubscriptionStores
    /\ videos = <<>>
    /\ likes = <<>>
    /\ strictQuery = FALSE
    /\ objectIdCallable = TRUE
    /\ minted = {users[u].refreshToken : u \in Users}
    /\ wrapped = Unregistered
    /\ wrappedOf = NoHandler
    /\ served = <<>>
    /\ inbox \in {<<[op |-> "getUserChannelProfile", viewer |-> v, username |-> n]>> :
                    v \in Users \cup {NoViewer}, n \in UsernameInputs}
    /\ resp = NoResponse

NextProfile == getUserChannelProfile

SpecProfile == InitProfile /\ [][NextProfile]_vars

-----------------------------------------------------------------------------
(* getWatchHistory *)

\* a video document: owner (line 405), views and createdAt (dashboard controller)
VideoDoc(id, owner, views) ==
    [_id |-> id, owner |-> owner, views |-> views, createdAt |-> id]

\* the inner $lookup from users on owner, with its $project
LookupOwner(video) ==
    LET ids == {u \in Users : users[u]._id = video.owner}
    IN  [i \in 1..Cardinality(ids) |->
            Restrict(users[CHOOSE u \in ids : Cardinality({v \in ids : v < u}) = i - 1],
                     {"_id", "fullName", "username", "avatar"})]

\* $addFields: { owner: { $first: "$owner" } }
FirstOwner(video) ==
    LET owner == LookupOwner(video)
    IN  IF Len(owner) = 0 THEN WithoutField(video, "owner")
        ELSE WithField(video, "owner", owner[1])

\* $lookup from videos, localField watchHistory, foreignField _id: the videos
\* whose _id is one of the ids of the list, as the videos collection yields them
LookupWatchHistory(doc) ==
    LET found == SelectSeq(videos,
                     LAMBDA v : \E i \in 1..Len(doc.watchHistory) : doc.watchHistory[i] = v._id)
    IN  [i \in 1..Len(found) |-> FirstOwner(found[i])]

\* User.aggregate([...]) of getWatchHistory
HistoryPipeline(userId) ==
    LET ids == {u \in Users : users[u]._id = userId}
    IN  [i \in 1..Cardinality(ids) |->
            LET doc == users[CHOOSE u \in ids : Cardinality({v \in ids : v < u}) = i - 1]
            IN  WithField(doc, "watchHistory", LookupWatchHistory(doc))]

\* user[0]?.watchHistory || []
HistoryResult(userId) ==
    LET user == HistoryPipeline(userId)
    IN  Response("getWatchHistory", 200, [user |-> userId],
                 ApiResponse(200, IF Len(user) = 0 THEN <<>> ELSE user[1].watchHistory,
                             "Watch History Fetched Successfully"), 1)

getWatchHistory ==
    /\ inbox # <<>>
    /\ Head(inbox).op = "getWatchHistory"
    /\ resp' = HistoryResult(Head(inbox).user)
    /\ inbox' = Tail(inbox)
    /\ UNCHANGED store

\* the sequences over S without repetition
Injective(S) == {q \in SeqsUpTo(S, Cardinality(S)) : \A i, j \in 1..Len(q) : q[i] = q[j] => i = j}

\* the video collections: any videos of ids 1..MaxVideos, in any store order,
\* each with an owner and a view count
VideoStores(Views) ==
    UNION {{[i \in 1..Len(q) |-> VideoDoc(q[i], f[i][1], f[i][2])] :
                f \in [1..Len(q) -> Users \X Views]} : q \in Injective(1..MaxVideos)}

InitHistory ==
    /\ \E u \in Users : \E h \in SeqsUpTo(1..MaxVideos, MaxHistory) :
          /\ users = [v \in Users |->
                        IF v = u THEN WithField(UserDoc(v), "watchHistory", h) ELSE UserDoc(v)]
          /\ inbox = <<[op |-> "getWatchHistory", user |-> u]>>
    /\ subscriptions = <<>>
    /\ videos \in VideoStores({0})
    /\ likes = <<>>
    /\ strictQuery = FALSE
    /\ objectIdCallable = TRUE
    /\ minted = {}
    /\ wrapped = Unregistered
    /\ wrappedOf = NoHandler
    /\ served = <<>>
    /\ resp = NoResponse

NextHistory == getWatchHistory

SpecHistory == InitHistory /\ [][NextHistory]_vars

-----------------------------------------------------------------------------
(* The dashboard controller: getChannelStats and getChannelVideos *)

\* the paths of the Video schema
VideoSchemaPaths == {"_id", "owner", "views", "createdAt"}

\* a like document: resource and type (line 18), likedBy
LikeDoc(id, resource, type) ==
    [_id |-> id, resource |-> resource, type |-> type, likedBy |-> id]

\* req.params.channelId: a string that is an ObjectId, or one that is not
ChannelId(id) == [valid |-> TRUE, id |-> id]
InvalidChannelId == [valid |-> FALSE, id |-> NoViewer]

\* mongoose.isValidObjectId(channelId)
isValidObjectId(channelId) == channelId.valid

\* the documents of a collection whose field has the value
MatchField(coll, field, value) ==
    SelectSeq(coll, LAMBDA d : field \in DOMAIN d /\ d[field] = value)

\* Video.find({ channel: channelId }) (also under countDocuments): with
\* strictQuery mongoose strips a filter path that the schema does not have and
\* the filter matches every video; without it the filter goes to the store as
\* written
FindVideosByChannel(id) ==
    IF strictQuery /\ "channel" \notin VideoSchemaPaths
    THEN videos
    ELSE MatchField(videos, "channel", id)

\* Subscription.countDocuments({ channel: channelId })
CountSubscribers(id) == Len(MatchField(subscriptions, "channel", id))

\* .distinct("_id")
DistinctIds(coll) == {coll[i]._id : i \in 1..Len(coll)}

\* Like.countDocuments({ resource: { $in: ids }, type: "video" })
CountLikes(ids) ==
    Len(SelectSeq(likes, LAMBDA l : l.resource \in ids /\ l.type = "video"))

RECURSIVE SumViews(_)
SumViews(coll) == IF coll = <<>> THEN 0 ELSE Head(coll).views + SumViews(Tail(coll))

\* Video.aggregate([{ $match: { channel: ObjectId } }, { $group: { _id: null,
\* totalViews: { $sum: "$views" } } }]): an aggregation stage is not cast
\* against the schema; $group over no document yields no group
AggregateViews(id) ==
    LET matched == MatchField(videos, "channel", id)
    IN  IF matched = <<>> THEN <<>>
        ELSE <<[_id |-> NoViewer, totalViews |-> SumViews(matched)]>>

\* totalViews[0]?.totalViews || 0
TotalViews(groups) == IF Len(groups) = 0 THEN 0 ELSE groups[1].totalViews

StatsResult(channelId) ==
    LET req == [channelId |-> channelId]
        id == channelId.id
    IN  IF ~isValidObjectId(channelId)
        THEN Response("getChannelStats", 400, req, ApiError(400, "Invalid channel ID"), 0)
        ELSE IF ~objectIdCallable
        THEN \* mongoose.Types.ObjectId(channelId) without new throws a TypeError
             Response("getChannelStats", 500, req,
                      ApiError(500, "Class constructor ObjectId cannot be invoked without 'new'"), 4)
        ELSE Response("getChannelStats", 200, req,
                      ApiResponse(200, "Channel stats fetched successfully",
                          [totalVideos |-> Len(FindVideosByChannel(id)),
                           totalSubscribers |-> CountSubscribers(id),
                           totalLikes |-> CountLikes(DistinctIds(FindVideosByChannel(id))),
                           totalViews |-> TotalViews(AggregateViews(id))]), 5)

getChannelStats ==
    /\ inbox # <<>>
    /\ Head(inbox).op = "getChannelStats"
    /\ resp' = StatsResult(Head(inbox).channelId)
    /\ inbox' = Tail(inbox)
    /\ UNCHANGED store

\* the video collections in the order of their ids
OrderedVideoStores(Views) ==
    {vs \in VideoStores(Views) : \A i, j \in 1..Len(vs) : i < j => vs[i]._id < vs[j]._id}

\* the like collections of at most MaxLikes likes of videos and comments
LikeStores ==
    {[i \in 1..Len(q) |-> LikeDoc(i, q[i][1], q[i][2])] :
        q \in SeqsUpTo((1..MaxVideos) \X {"video", "comment"}, MaxLikes)}

ChannelIdInputs == {ChannelId(u) : u \in Users} \cup {InvalidChannelId}

InitStats ==
    /\ users = [u \in Users |-> UserDoc(u)]
    /\ subscriptions = <<>>
    /\ videos \in OrderedVideoStores({0, MaxViews})
    /\ likes \in LikeStores
    /\ strictQuery \in BOOLEAN
    /\ objectIdCallable \in BOOLEAN
    /\ minted = {}
    /\ wrapped = Unregistered
    /\ wrappedOf = NoHandler
    /\ served = <<>>
    /\ inbox \in {<<[op |-> "getChannelStats", channelId |-> c]>> : c \in ChannelIdInputs}
    /\ resp = NoResponse

NextStats == getChannelStats

SpecStats == InitStats /\ [][NextStats]_vars

\* the videos of coll from the newest to the oldest: sort({ createdAt: -1 })
RECURSIVE SortNewestFirst(_)
SortNewestFirst(coll) ==
    IF coll = <<>> THEN <<>>
    ELSE LET k == CHOOSE i \in 1..Len(coll) :
                      \A j \in 1..Len(coll) :
                          \/ coll[j].createdAt < coll[i].createdAt
                          \/ (coll[j].createdAt = coll[i].createdAt /\ i <= j)
         IN  <<coll[k]>> \o SortNewestFirst(SubSeq(coll, 1, k - 1) \o SubSeq(coll, k + 1, Len(coll)))

\* skip(n) then limit(m) of a sorted result
SkipLimit(coll, n, m) ==
    SubSeq(coll, n + 1, IF n + m < Len(coll) THEN n + m ELSE Len(coll))

\* Video.find(...).skip((page - 1) * limit).limit(Number(limit)).sort({ createdAt: -1 }):
\* the query is built first and the store sorts before it skips and limits
VideosResult(channelId, page, limit) ==
    LET req == [channelId |-> channelId, page |-> page, limit |-> limit]
    IN  IF ~isValidObjectId(channelId)
        THEN Response("getChannelVideos", 400, req, ApiError(400, "Invalid channel ID"), 0)
        ELSE Response("getChannelVideos", 200, req,
                      ApiResponse(200, "Channel videos fetched successfully",
                          SkipLimit(SortNewestFirst(FindVideosByChannel(channelId.id)),
                                    (page - 1) * limit, limit)), 1)

getChannelVideos ==
    /\ inbox # <<>>
    /\ Head(inbox).op = "getChannelVideos"
    /\ resp' = VideosResult(Head(inbox).channelId, Head(inbox).page, Head(inbox).limit)
    /\ inbox' = Tail(inbox)
    /\ UNCHANGED store

InitVideos ==
    /\ users = [u \in Users |-> UserDoc(u)]
    /\ subscriptions = <<>>
    /\ videos \in VideoStores({0})
    /\ likes = <<>>
    /\ strictQuery \in BOOLEAN
    /\ objectIdCallable = TRUE
    /\ minted = {}
    /\ wrapped = Unregistered
    /\ wrappedOf = NoHandler
    /\ served = <<>>
    /\ inbox \in {<<[op |-> "getChannelVideos", channelId |-> c, page |-> p, limit |-> l]>> :
                    c \in ChannelIdInputs, p \in 1..MaxPage, l \in 1..MaxLimit}
    /\ resp = NoResponse

NextVideos == getChannelVideos

SpecVideos == InitVideos /\ [][NextVideos]_vars

-----------------------------------------------------------------------------
(* loginUser, logoutUser, refreshAccessToken *)

\* user.generateAccessToken() and user.generateRefreshToken(): the next signatures
Generated(userId) ==
    [accessToken |-> AccessToken(userId, Cardinality(minted) + 1),
     refreshToken |-> Token(userId, Cardinality(minted) + 1)]

\* user.refreshToken = refreshToken; await user.save(...)
SaveRefreshToken(userId, refreshToken) ==
    /\ users' = [users EXCEPT ![userId] = WithField(@, "refreshToken", refreshToken)]
    /\ minted' = minted \cup {refreshToken}

\* const { a, b } = obj: a key that obj does not have yields undefined
Destructure(obj, key) == IF key \in DOMAIN obj THEN obj[key] ELSE Undefined

\* res.cookie(name, value): the value goes through String(value)
CookieValue(value) == IF value = Undefined THEN Malformed ELSE value

\* JSON.stringify drops the keys whose value is undefined
Json(obj) == [k \in {f \in DOMAIN obj : obj[f] # Undefined} |-> obj[k]]

\* a response that also sets cookies
WithCookies(response, cookies) == WithField(response, "cookies", cookies)

\* req.body of loginUser: no username or email, one that no user has, or a user's
NoIdentity == [given |-> FALSE, user |-> NoViewer]
UnknownIdentity == [given |-> TRUE, user |-> NoViewer]
IdentityOf(u) == [given |-> TRUE, user |-> u]

loginUser(identity, passwordValid) ==
    LET req == [identity |-> identity, passwordValid |-> passwordValid]
    IN  /\ inbox = <<>>
        /\ UNCHANGED <<subscriptions, videos, likes, strictQuery, objectIdCallable,
                       wrapped, wrappedOf, served, inbox>>
        /\ IF ~identity.given
           THEN /\ resp' = Response("loginUser", 400, req,
                                    ApiError(400, "username or email is required"), 0)
                /\ UNCHANGED <<users, minted>>
           ELSE IF identity.user \notin Users
           THEN /\ resp' = Response("loginUser", 404, req, ApiError(404, "User not found"), 1)
                /\ UNCHANGED <<users, minted>>
           ELSE IF ~passwordValid
           THEN /\ resp' = Response("loginUser", 401, req,
                                    ApiError(401, "Invalid user credentials"), 1)
                /\ UNCHANGED <<users, minted>>
           ELSE LET tokens == Generated(identity.user)
                    accessToken == Destructure(tokens, "accessToken")
                    refreshToken == Destructure(tokens, "refreshToken")
                    loggedInUser == WithoutField(WithoutField(users[identity.user],
                                                     "password"), "refreshToken")
                IN  /\ Cardinality(minted) < MaxTokens
                    /\ SaveRefreshToken(identity.user, tokens.refreshToken)
                    /\ resp' = WithCookies(
                           Response("loginUser", 200, req,
                               ApiResponse(200,
                                   Json([user |-> loggedInUser, accessToken |-> accessToken,
                                         refreshToken |-> refreshToken]),
                                   "User loggedIn Succesfully"), 4),
                           [accessToken |-> CookieValue(accessToken),
                            refreshToken |-> CookieValue(refreshToken)])

\* mutant: the update without the $unset
KeepRefreshToken(doc) == doc

\* $unset: { refreshToken: 1 }
UnsetRefreshToken(doc) == WithoutField(doc, "refreshToken")

\* logoutUser for the authenticated user req.user._id
logoutUser(userId) ==
    /\ inbox = <<>>
    /\ users' = [users EXCEPT ![userId] = UnsetRefreshToken(@)]
    /\ resp' = WithCookies(
           Response("logoutUser", 200, [user |-> userId],
                    ApiResponse(200, EmptyDoc, "User Logged Out"), 1),
           EmptyDoc)
    /\ UNCHANGED <<subscriptions, videos, likes, strictQuery, objectIdCallable,
                   minted, wrapped, wrappedOf, served, inbox>>

\* jwt.verify(incomingRefreshToken, secret) does not throw
Verifies(incoming, expired) == incoming.kind = "jwt" /\ incoming \in minted /\ ~expired

\* mutant: the comparison left out
AnyTokenMatches(incoming, user) == TRUE

\* not (incomingRefreshToken !== user?.refreshToken)
TokenMatches(incoming, user) ==
    "refreshToken" \in DOMAIN user /\ user.refreshToken = incoming

refreshAccessToken(incoming, expired) ==
    LET req == [incoming |-> incoming, expired |-> expired]
    IN  /\ inbox = <<>>
        /\ UNCHANGED <<subscriptions, videos, likes, strictQuery, objectIdCallable,
                       wrapped, wrappedOf, served, inbox>>
        /\ IF incoming = Undefined
           THEN /\ resp' = Response("refreshAccessToken", 401, req,
                                    ApiError(401, "Unauthorized request"), 0)
                /\ UNCHANGED <<users, minted>>
           ELSE IF \/ ~Verifies(incoming, expired)
                   \/ incoming._id \notin Users
                   \/ ~TokenMatches(incoming, users[incoming._id])
           THEN \* every throw inside the try is caught and thrown again as this one
                /\ resp' = Response("refreshAccessToken", 401, req,
                                    ApiError(401, "Invalid refresh Token"),
                                    IF Verifies(incoming, expired) THEN 1 ELSE 0)
                /\ UNCHANGED <<users, minted>>
           ELSE LET tokens == Generated(incoming._id)
                    accessToken == Destructure(tokens, "accessToken")
                    newrefreshToken == Destructure(tokens, "newrefreshToken")
                IN  /\ Cardinality(minted) < MaxTokens
                    /\ SaveRefreshToken(incoming._id, tokens.refreshToken)
                    /\ resp' = WithCookies(
                           Response("refreshAccessToken", 200, req,
                               ApiResponse(200,
                                   Json([accessToken |-> accessToken,
                                         refreshToken |-> newrefreshToken]),
                                   "Access token refreshed"), 3),
                           [accessToken |-> CookieValue(accessToken),
                            refreshToken |-> CookieValue(newrefreshToken)])

\* what a client may present as its refresh token
IncomingTokens == minted \cup {Undefined, Malformed}

InitAuth ==
    /\ users = [u \in Users |-> UserDoc(u)]
    /\ subscriptions = <<>>
    /\ videos = <<>>
    /\ likes = <<>>
    /\ strictQuery = FALSE
    /\ objectIdCallable = TRUE
    /\ minted = {}
    /\ wrapped = Unregistered
    /\ wrappedOf = NoHandler
    /\ served = <<>>
    /\ inbox = <<>>
    /\ resp = NoResponse

NextAuth ==
    \/ \E identity \in {NoIdentity, UnknownIdentity} \cup {IdentityOf(u) : u \in Users},
          passwordValid \in BOOLEAN : loginUser(identity, passwordValid)
    \/ \E userId \in Users : logoutUser(userId)
    \/ \E incoming \in IncomingTokens, expired \in BOOLEAN :
          refreshAccessToken(incoming, expired)

SpecAuth == InitAuth /\ [][NextAuth]_vars

-----------------------------------------------------------------------------
(* asyncHandler *)

Errors == {"ApiError", "StoreError", "TypeError"}

\* what a requestHandler does when called: its promise is fulfilled, its
\* promise is rejected with an error, or it throws before returning a promise
RequestHandlers ==
    {[outcome |-> "fulfilled", error |-> "none"]}
    \cup {[outcome |-> o, error |-> e] : o \in {"rejected", "thrown"}, e \in Errors}

\* the arrow function of lines 2 to 6
InnerHandler(requestHandler) == [kind |-> "function", requestHandler |-> requestHandler]

\* asyncHandler: its body is a block that evaluates the arrow function and
\* returns nothing
asyncHandler(requestHandler) ==
    LET inner == InnerHandler(requestHandler)
    IN  [kind |-> "undefined"]

\* Promise.resolve(requestHandler(req, res, next)).catch((error) => next(error))
CallInner(inner) ==
    LET h == inner.requestHandler
    IN  [requestHandler |-> h,
         invoked |-> TRUE,
         nextCalls |-> IF h.outcome = "rejected" THEN <<h.error>> ELSE <<>>,
         raised |-> IF h.outcome = "thrown" THEN h.error ELSE "none"]

\* the router calling handler(req, res, next)
Call(handler, requestHandler) ==
    IF handler.kind = "function"
    THEN CallInner(handler)
    ELSE [requestHandler |-> requestHandler, invoked |-> FALSE, nextCalls |-> <<>>,
          raised |-> "TypeError: handler is not a function"]

\* const handler = asyncHandler(async (req, res) => {...})
Register(requestHandler) ==
    /\ wrapped' = asyncHandler(requestHandler)
    /\ wrappedOf' = requestHandler
    /\ UNCHANGED <<users, subscriptions, videos, likes, strictQuery, objectIdCallable,
                   minted, served, inbox, resp>>

Dispatch ==
    /\ wrapped # Unregistered
    /\ Len(served) < MaxServed
    /\ served' = Append(served, Call(wrapped, wrappedOf))
    /\ UNCHANGED <<users, subscriptions, videos, likes, strictQuery, objectIdCallable,
                   minted, wrapped, wrappedOf, inbox, resp>>

NextHandler ==
    \/ \E requestHandler \in RequestHandlers : Register(requestHandler)
    \/ Dispatch

\* no handler is wrapped yet and no request was dispatched
InitHandler ==
    /\ wrapped = Unregistered
    /\ wrappedOf = NoHandler
    /\ served = <<>>
    /\ users = [u \in Users |-> UserDoc(u)]
    /\ subscriptions = <<>>
    /\ videos = <<>>
    /\ likes = <<>>
    /\ strictQuery = FALSE
    /\ objectIdCallable = TRUE
    /\ minted = {}
    /\ inbox = <<>>
    /\ resp = NoResponse

SpecHandler == InitHandler /\ [][NextHandler]_vars

-----------------------------------------------------------------------------
(* Claims about getUserChannelProfile, checked under SpecProfile *)

IsProfile == resp.op = "getUserChannelProfile"

\* the user a request's username names exactly, if any
NamedExactly(c) == resp.req.username = Str(Username(c))

\* the edges of the store, counted from the collection itself
Follows(s, c) ==
    \E i \in 1..Len(subscriptions) :
        subscriptions[i].subscriber = s /\ subscriptions[i].channel = c

NumEdges(P(_)) == Cardinality({i \in 1..Len(subscriptions) : P(subscriptions[i])})

\* C1: for an existing channel C, the profile of C.username has isSubscribed
\* true exactly when an edge viewer -> C exists; it is false for a viewer not
\* following C and for an anonymous viewer, whatever other edges exist.
C1_IsSubscribed ==
    \A c \in Users :
        (IsProfile /\ NamedExactly(c)) =>
            /\ resp.status = 200
            /\ resp.body.data.isSubscribed = Follows(resp.req.viewer, c)
            /\ (resp.req.viewer = NoViewer => resp.body.data.isSubscribed = FALSE)

\* a viewer following C and another channel gets isSubscribed = TRUE
C1_Witness ==
    \E c \in Users : \E o \in Users \ {c} :
        /\ IsProfile /\ NamedExactly(c)
        /\ resp.req.viewer \in Users \ {c}
        /\ Follows(resp.req.viewer, c) /\ Follows(resp.req.viewer, o)
        /\ resp.body.data.isSubscribed = TRUE

\* C2: subscribersCount is the number of edges with channel = C and
\* channelsSubscribedToCount the number of edges with subscriber = C.
C2_Counts ==
    \A c \in Users :
        (IsProfile /\ NamedExactly(c)) =>
            /\ resp.status = 200
            /\ resp.body.data.subscribersCount = NumEdges(LAMBDA e : e.channel = c)
            /\ resp.body.data.channelsSubscribedToCount = NumEdges(LAMBDA e : e.subscriber = c)

\* a channel with two subscribers that follows nobody
C2_Witness ==
    \E c \in Users :
        /\ IsProfile /\ NamedExactly(c)
        /\ resp.body.data.subscribersCount = 2
        /\ resp.body.data.channelsSubscribedToCount = 0

\* C6: a missing or blank username gives 400 before any store query; a
\* non-blank username matching no user gives 404; a username matching a user
\* gives status 200 with that user's profile record.
C6_Outcome ==
    IsProfile =>
        LET name == resp.req.username
            blank == ~name.present \/ \A i \in 1..Len(name.value) : name.value[i] = Space
            hits == {u \in Users : Username(u) = toLowerCase(name.value)}
        IN  /\ blank => resp.status = 400 /\ resp.queries = 0
            /\ (~blank /\ hits = {}) => resp.status = 404 /\ resp.body.data = EmptyDoc
            /\ (~blank /\ hits # {}) =>
                    /\ resp.status = 200
                    /\ Cardinality(hits) = 1
                    /\ resp.body.data._id \in hits

\* a username of blanks only was refused without a query
C6_Witness ==
    /\ IsProfile
    /\ resp.req.username = Str(<<Space, Space>>)
    /\ resp.status = 400 /\ resp.queries = 0

\* C7: the returned record holds only the projected fields and the id; the
\* password, the refresh token, the watch history and the joined edge lists
\* are not in it.
C7_Projection ==
    (IsProfile /\ resp.status = 200) =>
        /\ DOMAIN resp.body.data \subseteq
               {"_id", "fullName", "username", "avatar", "coverImage",
                "subscribersCount", "channelsSubscribedToCount", "isSubscribed", "email"}
        /\ {"password", "refreshToken", "watchHistory", "subscribers", "subscribedTo"}
               \cap DOMAIN resp.body.data = {}

\* the profile of a user whose stored document holds a password and a refresh token
C7_Witness ==
    /\ IsProfile /\ resp.status = 200
    /\ {"password", "refreshToken", "watchHistory"} \subseteq DOMAIN users[resp.body.data._id]
    /\ "email" \in DOMAIN resp.body.data

-----------------------------------------------------------------------------
(* Claim about getWatchHistory, checked under SpecHistory *)

IsHistory == resp.op = "getWatchHistory"

\* the watch history of the requesting user lists existing videos, each once
HistoryOfExistingVideos ==
    LET h == users[resp.req.user].watchHistory
    IN  /\ \A i \in 1..Len(h) : \E j \in 1..Len(videos) : videos[j]._id = h[i]
        /\ \A i, j \in 1..Len(h) : h[i] = h[j] => i = j

\* C3: the returned videos are those of watchHistory, in the order of watchHistory.
C3_HistoryOrder ==
    (IsHistory /\ HistoryOfExistingVideos) =>
        [i \in 1..Len(resp.body.data) |-> resp.body.data[i]._id] = users[resp.req.user].watchHistory

-----------------------------------------------------------------------------
(* Claims about the dashboard controller, checked under SpecStats and SpecVideos *)

\* the videos owned by channel c, in store order
OwnedBy(c) == SelectSeq(videos, LAMBDA v : v.owner = c)

\* the statistics record that getChannelStats hands to ApiResponse (it hands it
\* over in the message position)
ReturnedStats == resp.body.message

\* C4: for a valid channelId, totalVideos is the number of videos owned by the
\* channel, totalLikes the number of likes of type video on those videos and
\* totalViews the sum of their views, all 0 when the channel owns no video.
C4_ChannelStats ==
    (resp.op = "getChannelStats" /\ resp.req.channelId.valid /\ resp.status = 200) =>
        LET owned == OwnedBy(resp.req.channelId.id)
        IN  /\ ReturnedStats.totalVideos = Len(owned)
            /\ ReturnedStats.totalLikes =
                  Cardinality({i \in 1..Len(likes) :
                      /\ likes[i].type = "video"
                      /\ \E j \in 1..Len(owned) : owned[j]._id = likes[i].resource})
            /\ ReturnedStats.totalViews = SumViews(owned)

\* the videos getChannelVideos hands to ApiResponse (in the message position)
ReturnedVideos == resp.body.message

\* C5: for a valid channel, page >= 1 and limit >= 1, the result is the videos
\* owned by the channel ranked (page-1)*limit+1 .. page*limit from the newest.
C5_ChannelVideos ==
    (resp.op = "getChannelVideos" /\ resp.req.channelId.valid) =>
        LET ranked == SortNewestFirst(OwnedBy(resp.req.channelId.id))
            first == (resp.req.page - 1) * resp.req.limit + 1
            last == resp.req.page * resp.req.limit
        IN  /\ resp.status = 200
            /\ ReturnedVideos =
                  SubSeq(ranked, first, IF last < Len(ranked) THEN last ELSE Len(ranked))

-----------------------------------------------------------------------------
(* Claim about asyncHandler, checked under SpecHandler *)

\* C8: asyncHandler(h) returns a request handler that invokes h and calls next
\* exactly once with h's error when h throws or its promise rejects, and does
\* not call next when h completes normally.
C8_AsyncHandler ==
    /\ wrapped # Unregistered => wrapped.kind = "function"
    /\ \A i \in 1..Len(served) :
          /\ served[i].invoked
          /\ served[i].requestHandler.outcome = "fulfilled" => served[i].nextCalls = <<>>
          /\ served[i].requestHandler.outcome # "fulfilled" =>
                served[i].nextCalls = <<served[i].requestHandler.error>>

-----------------------------------------------------------------------------
(* Claims about the refresh tokens, checked under SpecAuth *)

HasRefreshToken(u) == "refreshToken" \in DOMAIN users[u]

\* C9: after a successful refreshAccessToken the refresh token handed to the
\* client, in the cookie and in the body, is the one stored on the user.
C9_DeliveredToken ==
    (resp.op = "refreshAccessToken" /\ resp.status = 200) =>
        LET stored == users[resp.req.incoming._id].refreshToken
        IN  /\ resp.cookies.refreshToken = stored
            /\ "refreshToken" \in DOMAIN resp.body.data
            /\ resp.body.data.refreshToken = stored

\* C10: a logout leaves the user's refreshToken unset; while it is unset every
\* refreshAccessToken presenting a token of that user fails with 401 and leaves
\* it unset; only a successful loginUser of that user sets it again; and a
\* refresh succeeds only when the presented token is the stored one.
C10_Step ==
    \A u \in Users :
        /\ (resp'.op = "logoutUser" /\ resp'.req.user = u) => ~HasRefreshToken(u)'
        /\ (resp'.op = "refreshAccessToken" /\ resp'.req.incoming._id = u
                /\ ~HasRefreshToken(u)) =>
              (resp'.status = 401 /\ ~HasRefreshToken(u)')
        /\ (~HasRefreshToken(u) /\ HasRefreshToken(u)') =>
              (resp'.op = "loginUser" /\ resp'.status = 200 /\ resp'.req.identity.user = u)
        /\ (resp'.op = "refreshAccessToken" /\ resp'.status = 200
                /\ resp'.req.incoming._id = u) =>
              (HasRefreshToken(u) /\ users[u].refreshToken = resp'.req.incoming)

C10_LogoutRevokes == [][C10_Step]_vars

\* a token issued to a user before the logout was presented, unexpired, and refused
C10_Witness ==
    /\ resp.op = "refreshAccessToken" /\ resp.status = 401
    /\ resp.req.incoming \in minted /\ ~resp.req.expired
    /\ ~HasRefreshToken(resp.req.incoming._id)

=============================================================================
